---- MODULE Spec2Model ----
(***************************************************************************)
(* PayPal MCP server: the credential lifecycle of PayPalAuthService        *)
(* (auth.service.ts) and the tool handlers (payment.tools.ts,              *)
(* user.tools.ts).                                                         *)
(*                                                                         *)
(* JavaScript runs one callback at a time; an async function runs          *)
(* synchronously up to its first pending await.  Each action below is one  *)
(* such run-to-suspension slice of one tool invocation.                    *)
(***************************************************************************)
EXTENDS Integers, Sequences, FiniteSets, TLC

\* ------------------------------------------------------------------ bounds

\* Invocations in one run, over all callers.
MaxCalls == 2
\* Clock advances in one run.
MaxTicks == 2

\* The concurrent callers of the tool handlers: two, the least number that
\* makes invocations overlap.
Procs == {1, 2}

\* One clock advance, in milliseconds (Date.now() is in milliseconds).
Deltas == {150000}

\* expires_in values (seconds) the provider may put in a token response.
ExpiresInValues == {300, 600}

\* ------------------------------------------------------------- the program

\* private tokenExpiryBuffer = 300
tokenExpiryBuffer == 300

\* private tokenData: TokenResponse | null = null
NoToken == [present |-> FALSE]

\* The Authorization header `Bearer ${undefined}`.
Undefined == 0

\* ---- provider responses (axios response / error.response)

NoBody == [error_description |-> "", message |-> ""]

ErrorBodies ==
  { NoBody,
    [error_description |-> "invalid_request", message |-> ""],
    [error_description |-> "", message |-> "Bad request"],
    [error_description |-> "invalid_request", message |-> "Bad request"] }

\* status 0: the request got no response (timeout, connection failure).
NoResponse == [status |-> 0, data |-> NoBody]

\* The failures the provider answers with: no response, a 400 with each
\* body, a 401 and a 429 with and without a body, a 500 without one.
ErrorResponses ==
  {NoResponse}
    \cup [status : {400}, data : ErrorBodies \ {NoBody}]
    \cup [status : {401, 429},
          data : {NoBody, [error_description |-> "invalid_request",
                           message |-> "Bad request"]}]
    \cup [status : {500}, data : {NoBody}]

OrderPayloads == { [id |-> "ORDER-A"], [id |-> "ORDER-B"] }

NotDelivered == [status |-> -1, data |-> NoBody]

\* ---- error messages, as the sequence of the fragments concatenated

StatusText(s) ==
  CASE s = 400 -> "400"
    [] s = 401 -> "401"
    [] s = 429 -> "429"
    [] s = 500 -> "500"
    [] OTHER   -> "?"

\* The message axios gives the error it rejects with.
AxiosMessage(resp) ==
  IF resp.status = 0
    THEN <<"Network Error">>
    ELSE <<"Request failed with status code ", StatusText(resp.status)>>

\* ---- tool arguments and createOrderSchema

ValidOrder ==
  [intent |-> "CAPTURE", units |-> 1, currencyLen |-> 3, valueOk |-> TRUE]

OrderArgs ==
  { ValidOrder,
    [intent |-> "REFUND",  units |-> 1, currencyLen |-> 3, valueOk |-> TRUE],
    [intent |-> "CAPTURE", units |-> 0, currencyLen |-> 3, valueOk |-> TRUE],
    [intent |-> "CAPTURE", units |-> 1, currencyLen |-> 2, valueOk |-> TRUE],
    [intent |-> "CAPTURE", units |-> 1, currencyLen |-> 3, valueOk |-> FALSE] }

\* amountSchema: currency_code of length 3, value matching /^\d+\.?\d*$/
amountSchema(a) == a.currencyLen = 3 /\ a.valueOk

\* Mutant: purchase_units without .min(1).
createOrderSchemaNoMin(a) ==
  /\ a.intent \in {"CAPTURE", "AUTHORIZE"}
  /\ amountSchema(a)

\* createOrderSchema: intent in the enum, at least one purchase unit, each
\* with a valid amount.
createOrderSchema(a) ==
  /\ a.intent \in {"CAPTURE", "AUTHORIZE"}
  /\ a.units >= 1
  /\ amountSchema(a)

\* ---- configuration (PayPalAuthOptions) and request destinations

Environments == {"sandbox", "live"}

Secrets == {"secret-A", "secret-B"}

clientId == "client-id"

SandboxUrl == "https://api-m.sandbox.paypal.com"

LiveUrl == "https://api-m.paypal.com"

\* The constructor's this.baseUrl, which getBaseUrl returns.
BaseUrl(env) == IF env = "sandbox" THEN SandboxUrl ELSE LiveUrl

\* The host of the URL getUserInfo passes to axios.get.
UserInfoUrl == "https://api-m.paypal.com"

\* Buffer.from(`${clientId}:${clientSecret}`).toString('base64')
Base64(id, secret) ==
  CASE id = "client-id" /\ secret = "secret-A" -> "Y2xpZW50LWlkOnNlY3JldC1B"
    [] id = "client-id" /\ secret = "secret-B" -> "Y2xpZW50LWlkOnNlY3JldC1C"

UserInfoPayloads == { [id |-> "USER-A"] }

\* The failures of the user info request the model draws from.
UserInfoErrors ==
  {NoResponse, [status |-> 401, data |-> NoBody]}

\* What verifyCredentials returns: true.
VerifiedTrue == [verified |-> TRUE]

\* ---- values written to the log

\* What a logged value may carry: the request payload, the bearer token of
\* the Authorization header, the Basic encoding of the client secret.
Sensitive == {"payload", "bearer", "basic"}

\* sanitizeForLogging masks the fields with secret-like keys.
sanitizeForLogging(carries) == [sanitized |-> TRUE, carries |-> {}]

LogEntry(site, value) == [site |-> site, value |-> value]

\* An error object logged as it is: a new Error, which holds its message
\* only, or the AxiosError as it came (raw), which also holds the request's
\* config (headers and body).
ErrorValue(raw, message, carries) ==
  [sanitized |-> FALSE, message |-> message,
   carries |-> IF raw THEN carries ELSE {}]

VARIABLES
  environment,   \* options.environment
  clientSecret,  \* options.clientSecret
  tokenData,     \* PayPalAuthService.tokenData
  now,           \* Date.now()
  ticks,         \* clock advances so far
  calls,         \* tool invocations so far
  issued,        \* access tokens the provider has issued so far
  pc,            \* where each caller's invocation is suspended
  op,            \* the operation each caller invoked
  args,          \* the arguments of each caller's invocation
  exchangeSent,  \* POST /v1/oauth2/token requests sent by the invocation
  businessSent,  \* POST /v2/checkout/orders requests sent by the invocation
  ensured,       \* the token its ensureAccessToken resolved to
  bearer,        \* the token in its client's Authorization header
  delivered,     \* the response the provider gave its business request
  outcome,       \* what the invocation returned or threw
  host,          \* the base URL its last request went to ("": none sent)
  logged,        \* the entries the invocation wrote to the log
  cold,          \* history: tokenData was null when the invocation began
  overlapped,    \* history: another invocation ran during this one
  discarded,     \* history: the expiration of the credential the last 401
                 \* cleared, until the next write of tokenData (0: none)
  started,       \* history: the order in which the exchange requests of
                 \* the running invocations were sent (0: none sent)
  staleClear     \* history: the last 401 cleared a credential whose token
                 \* was not the one the rejected request carried

config == <<environment, clientSecret>>

vars == <<environment, clientSecret, tokenData, now, ticks, calls, issued,
          pc, op, args, exchangeSent, businessSent, ensured, bearer,
          delivered, outcome, host, logged, cold, overlapped, discarded,
          started, staleClear>>

Pending == [status |-> "pending"]
Returned(data) == [status |-> "returned", data |-> data]
Threw(message) == [status |-> "threw", message |-> message]

Active(p) == pc[p] \notin {"idle", "done"}

\* The state after new PayPalAuthService(options), whatever the options.
InitAny ==
  /\ environment \in Environments
  /\ clientSecret \in Secrets
  /\ tokenData = NoToken
  /\ now = 0
  /\ ticks = 0
  /\ calls = 0
  /\ issued = 0
  /\ pc = [p \in Procs |-> "idle"]
  /\ op = [p \in Procs |-> "create_order"]
  /\ args = [p \in Procs |-> ValidOrder]
  /\ exchangeSent = [p \in Procs |-> 0]
  /\ businessSent = [p \in Procs |-> 0]
  /\ ensured = [p \in Procs |-> Undefined]
  /\ bearer = [p \in Procs |-> Undefined]
  /\ delivered = [p \in Procs |-> NotDelivered]
  /\ outcome = [p \in Procs |-> Pending]
  /\ cold = [p \in Procs |-> FALSE]
  /\ host = [p \in Procs |-> ""]
  /\ logged = [p \in Procs |-> {}]
  /\ overlapped = [p \in Procs |-> FALSE]
  /\ discarded = 0
  /\ started = [p \in Procs |-> 0]
  /\ staleClear = FALSE

\* The state after construction with one configuration: the sandbox and the
\* first secret.
Init ==
  /\ InitAny
  /\ environment = "sandbox"
  /\ clientSecret = "secret-A"

\* ---- PayPalAuthService

\* Mutant: the cache is never used.
HasValidTokenNever(td, t) == FALSE

\* Mutant: the boundary now = expiration - buffer counts as valid.
HasValidTokenInclusive(td, t) ==
  /\ td.present
  /\ td.expiration # 0
  /\ t <= td.expiration - (tokenExpiryBuffer * 1000)

\* ensureAccessToken's test: a token is cached and not expired (with buffer).
HasValidToken(td, t) ==
  /\ td.present
  /\ td.expiration # 0
  /\ t < td.expiration - (tokenExpiryBuffer * 1000)

\* getAccessToken: this.tokenData = {...response.data, expiration: ...}
StoredToken(token, expiresIn, t) ==
  [present |-> TRUE, access_token |-> token, expires_in |-> expiresIn,
   expiration |-> t + (expiresIn * 1000)]

AuthFailedMessage ==
  <<"Authentication failed with PayPal API. Token may have expired.">>

\* Mutant: a 401 leaves tokenData as it is.
handleRequestErrorKeepsToken(resp, td) ==
  IF resp.status = 401
    THEN [message |-> AuthFailedMessage, tokenData |-> td, raw |-> FALSE]
  ELSE IF resp.data.error_description # ""
    THEN [message |-> <<"PayPal API error: ", resp.data.error_description>>,
          tokenData |-> td, raw |-> FALSE]
  ELSE IF resp.data.message # ""
    THEN [message |-> <<"PayPal API error: ", resp.data.message>>,
          tokenData |-> td, raw |-> FALSE]
  ELSE [message |-> AxiosMessage(resp), tokenData |-> td, raw |-> TRUE]

\* Mutant: a failure without a response clears tokenData too.
handleRequestErrorClearsOnNoResponse(resp, td) ==
  IF resp.status = 401
    THEN [message |-> AuthFailedMessage, tokenData |-> NoToken, raw |-> FALSE]
  ELSE IF resp.data.error_description # ""
    THEN [message |-> <<"PayPal API error: ", resp.data.error_description>>,
          tokenData |-> td, raw |-> FALSE]
  ELSE IF resp.data.message # ""
    THEN [message |-> <<"PayPal API error: ", resp.data.message>>,
          tokenData |-> td, raw |-> FALSE]
  ELSE [message |-> AxiosMessage(resp), raw |-> TRUE,
        tokenData |-> IF resp.status = 0 THEN NoToken ELSE td]

\* Mutant: every failure clears tokenData.
handleRequestErrorClearsAlways(resp, td) ==
  IF resp.status = 401
    THEN [message |-> AuthFailedMessage, tokenData |-> NoToken, raw |-> FALSE]
  ELSE IF resp.data.error_description # ""
    THEN [message |-> <<"PayPal API error: ", resp.data.error_description>>,
          tokenData |-> NoToken, raw |-> FALSE]
  ELSE IF resp.data.message # ""
    THEN [message |-> <<"PayPal API error: ", resp.data.message>>,
          tokenData |-> NoToken, raw |-> FALSE]
  ELSE [message |-> AxiosMessage(resp), tokenData |-> NoToken, raw |-> TRUE]

\* Mutant: the body is looked at before the status, and message before
\* error_description.
handleRequestErrorBodyFirst(resp, td) ==
  IF resp.data.message # ""
    THEN [message |-> <<"PayPal API error: ", resp.data.message>>,
          tokenData |-> td, raw |-> FALSE]
  ELSE IF resp.data.error_description # ""
    THEN [message |-> <<"PayPal API error: ", resp.data.error_description>>,
          tokenData |-> td, raw |-> FALSE]
  ELSE IF resp.status = 401
    THEN [message |-> AuthFailedMessage, tokenData |-> NoToken, raw |-> FALSE]
  ELSE [message |-> AxiosMessage(resp), tokenData |-> td, raw |-> TRUE]

\* handleRequestError: the message of the error it rejects with, tokenData
\* after it, and whether it rejects with the error as it came (raw) or with
\* a new Error.
handleRequestError(resp, td) ==
  IF resp.status = 401
    THEN [message |-> AuthFailedMessage, tokenData |-> NoToken, raw |-> FALSE]
  ELSE IF resp.data.error_description # ""
    THEN [message |-> <<"PayPal API error: ", resp.data.error_description>>,
          tokenData |-> td, raw |-> FALSE]
  ELSE IF resp.data.message # ""
    THEN [message |-> <<"PayPal API error: ", resp.data.message>>,
          tokenData |-> td, raw |-> FALSE]
  ELSE [message |-> AxiosMessage(resp), tokenData |-> td, raw |-> TRUE]

\* The entries handleRequestError writes: the response data, sanitized, and,
\* from the pass-through, the error as it came.
handleRequestErrorLogs(resp, carries) ==
  {LogEntry("PayPal API error:", sanitizeForLogging({}))}
    \cup IF handleRequestError(resp, NoToken).raw
           THEN {LogEntry("Unexpected error in PayPal API request:",
                          ErrorValue(TRUE, AxiosMessage(resp), carries))}
           ELSE {}

\* `Bearer ${this.tokenData?.access_token}`
BearerOf(td) == IF td.present THEN td.access_token ELSE Undefined

\* The history of invalidation: a 401 that cleared a credential records its
\* expiration; any other failure leaves the record.
Discard(resp, td) ==
  IF resp.status = 401 /\ td.present THEN td.expiration ELSE discarded

\* The history of invalidation: whether the credential a 401 cleared held
\* another token than the one the rejected request carried (Undefined for
\* the exchange request, which carries none).
StaleClear(resp, td, token) ==
  IF resp.status = 401
    THEN td.present /\ token # Undefined /\ td.access_token # token
    ELSE staleClear

\* The invocation of p is over: its locals are gone.
Finish(p) ==
  /\ pc' = [pc EXCEPT ![p] = "done"]
  /\ ensured' = [ensured EXCEPT ![p] = Undefined]
  /\ bearer' = [bearer EXCEPT ![p] = Undefined]
  /\ overlapped' = [overlapped EXCEPT ![p] = FALSE]
  /\ started' = [started EXCEPT ![p] = 0]

\* The fast path of ensureAccessToken: return this.tokenData.access_token.
ReturnCached(p) ==
  /\ ensured' = [ensured EXCEPT ![p] = tokenData.access_token]
  /\ pc' = [pc EXCEPT ![p] = "ensured"]
  /\ exchangeSent' = [exchangeSent EXCEPT ![p] = 0]
  /\ host' = [host EXCEPT ![p] = ""]
  /\ started' = [started EXCEPT ![p] = 0]

\* The place of a new exchange request after those of the running
\* invocations.
LastStarted ==
  CHOOSE n \in {started[q] : q \in Procs} :
    \A q \in Procs : started[q] <= n

\* getAccessToken up to its await: the POST /v1/oauth2/token leaves through
\* this.httpClient, whose baseURL is this.baseUrl.
getAccessToken(p, awaiting) ==
  /\ ensured' = [ensured EXCEPT ![p] = Undefined]
  /\ pc' = [pc EXCEPT ![p] = awaiting]
  /\ exchangeSent' = [exchangeSent EXCEPT ![p] = 1]
  /\ host' = [host EXCEPT ![p] = BaseUrl(environment)]
  /\ started' = [started EXCEPT ![p] = LastStarted + 1]

SendExchange(p) == getAccessToken(p, "awaitExchange")

ensureAccessToken(p) ==
  IF HasValidToken(tokenData, now) THEN ReturnCached(p) ELSE SendExchange(p)

\* ---- the dispatcher's validation step

ValidationMessage == <<"ValidationError: ", "invalid arguments">>

\* The Input Validator rejects the arguments before the handler runs.
RejectInvalid(p) ==
  /\ pc' = [pc EXCEPT ![p] = "done"]
  /\ outcome' = [outcome EXCEPT ![p] = Threw(ValidationMessage)]
  /\ exchangeSent' = [exchangeSent EXCEPT ![p] = 0]
  /\ ensured' = [ensured EXCEPT ![p] = Undefined]
  /\ host' = [host EXCEPT ![p] = ""]
  /\ logged' = [logged EXCEPT ![p] = {}]
  /\ UNCHANGED started

\* What every invocation by p begins with: the count of calls, the request
\* counters and the history of the invocation.
Begin(p, operation) ==
  /\ ~Active(p)
  /\ calls < MaxCalls
  /\ calls' = calls + 1
  /\ op' = [op EXCEPT ![p] = operation]
  /\ bearer' = [bearer EXCEPT ![p] = Undefined]
  /\ delivered' = [delivered EXCEPT ![p] = NotDelivered]
  /\ cold' = [cold EXCEPT ![p] = ~tokenData.present]
  /\ UNCHANGED <<config, tokenData, now, ticks, issued, discarded,
                 staleClear>>

\* The history of overlap, once the invocation by p has begun.
Overlap(p) ==
  overlapped' = [q \in Procs |->
                   IF pc'[p] = "done" THEN overlapped[q]
                   ELSE IF q = p THEN \E r \in Procs \ {p} : Active(r)
                   ELSE Active(q)]

\* A caller invokes create_order: validation, then createOrder runs up to
\* `await authService.getAuthenticatedClient()`, which runs up to
\* `await this.ensureAccessToken()`, which runs to its return or to the
\* await of the exchange request.
Invoke(p) ==
  /\ Begin(p, "create_order")
  /\ \E a \in OrderArgs :
       /\ args' = [args EXCEPT ![p] = a]
       /\ IF createOrderSchema(a)
            THEN /\ ensureAccessToken(p)
                 /\ outcome' = [outcome EXCEPT ![p] = Pending]
                 /\ logged' = [logged EXCEPT ![p] =
                      {LogEntry("Order args:",
                                sanitizeForLogging({"payload"}))}]
            ELSE RejectInvalid(p)
  /\ businessSent' = [businessSent EXCEPT ![p] = 0]
  /\ Overlap(p)

\* getAccessToken after its await, the exchange answered with a token: the
\* one assignment to this.tokenData.
StoreToken ==
  /\ \E e \in ExpiresInValues :
       tokenData' = StoredToken(issued + 1, e, now)
  /\ issued' = issued + 1
  /\ discarded' = 0
  /\ staleClear' = FALSE

ExchangeSucceeds(p) ==
  /\ pc[p] = "awaitExchange"
  /\ StoreToken
  /\ ensured' = [ensured EXCEPT ![p] = tokenData'.access_token]
  /\ pc' = [pc EXCEPT ![p] = "ensured"]
  /\ UNCHANGED <<config, now, ticks, calls, op, args, exchangeSent,
                 businessSent, bearer, delivered, outcome, host, logged,
                 cold, overlapped, started>>

AuthenticateFailedMessage == <<"Failed to authenticate with PayPal API">>

\* The Authorization header of the exchange request.
BasicHeader == <<"Basic ", Base64(clientId, clientSecret)>>

\* The error the catch of getAccessToken receives from the interceptor of
\* this.httpClient: its message and, when it is the AxiosError as it came,
\* the Authorization header in its config.
ExchangeError(resp) ==
  LET h == handleRequestError(resp, tokenData) IN
    [message |-> h.message, raw |-> h.raw,
     authorization |-> IF h.raw THEN BasicHeader ELSE <<>>]

\* Mutant: the catch appends what the error holds to its message.
getAccessTokenCatchLeaks(error) ==
  AuthenticateFailedMessage \o error.authorization

\* catch (error) { ...; throw new Error('Failed to authenticate with PayPal
\* API') }: the message of the error it throws.
getAccessTokenCatch(error) == AuthenticateFailedMessage

\* The entries an exchange failure writes: those of handleRequestError, then
\* logger.error('Failed to obtain PayPal access token:', error).
getAccessTokenLogs(resp) ==
  handleRequestErrorLogs(resp, {"basic"})
    \cup {LogEntry("Failed to obtain PayPal access token:",
                   ErrorValue(handleRequestError(resp, NoToken).raw,
                              handleRequestError(resp, NoToken).message,
                              {"basic"}))}

\* What an exchange failure does to the service: the interceptor runs
\* handleRequestError on the response.
ExchangeFailsWith(p, resp) ==
  /\ pc[p] \in {"awaitExchange", "awaitVerify"}
  /\ tokenData' = handleRequestError(resp, tokenData).tokenData
  /\ discarded' = Discard(resp, tokenData)
  /\ staleClear' = StaleClear(resp, tokenData, Undefined)
  /\ Finish(p)
  /\ UNCHANGED <<config, now, ticks, calls, issued, op, args, exchangeSent,
                 businessSent, delivered, host, cold>>

\* Mutant: the failure of the exchange is swallowed and the handler goes on
\* to its business request.
ExchangeFailsGoesOn(p) ==
  /\ pc[p] = "awaitExchange"
  /\ \E resp \in ErrorResponses :
       /\ tokenData' = handleRequestError(resp, tokenData).tokenData
       /\ discarded' = Discard(resp, tokenData)
       /\ staleClear' = StaleClear(resp, tokenData, Undefined)
       /\ logged' = [logged EXCEPT ![p] = @ \cup getAccessTokenLogs(resp)]
  /\ pc' = [pc EXCEPT ![p] = "ensured"]
  /\ UNCHANGED <<config, now, ticks, calls, issued, op, args, exchangeSent,
                 businessSent, ensured, bearer, delivered, outcome, host,
                 cold, overlapped, started>>

\* The exchange failed: the interceptor runs handleRequestError, the catch of
\* getAccessToken throws, and the error leaves createOrder (its await of
\* getAuthenticatedClient is outside its try).
ExchangeFails(p) ==
  /\ pc[p] = "awaitExchange"
  /\ \E resp \in ErrorResponses :
       /\ ExchangeFailsWith(p, resp)
       /\ outcome' = [outcome EXCEPT ![p] =
                        Threw(getAccessTokenCatch(ExchangeError(resp)))]
       /\ logged' = [logged EXCEPT ![p] = @ \cup getAccessTokenLogs(resp)]

\* getAuthenticatedClient after its await: the client is created with
\* baseURL this.baseUrl and the Authorization header read from
\* this.tokenData, and createOrder sends its POST /v2/checkout/orders
\* through it.
getAuthenticatedClient(p) ==
  /\ pc[p] = "ensured"
  /\ bearer' = [bearer EXCEPT ![p] = BearerOf(tokenData)]
  /\ businessSent' = [businessSent EXCEPT ![p] = businessSent[p] + 1]
  /\ host' = [host EXCEPT ![p] = BaseUrl(environment)]
  /\ pc' = [pc EXCEPT ![p] = "awaitBusiness"]
  /\ UNCHANGED <<config, tokenData, now, ticks, calls, issued, op, args,
                 exchangeSent, ensured, delivered, outcome, logged, cold,
                 overlapped, discarded, started, staleClear>>

\* ---- createOrder

\* Mutant: the handler returns the whole response, not its data.
createOrderReturnsResponse(resp) == Returned(resp)

\* return response.data
createOrderReturn(resp) == Returned(resp.data)

\* Mutant: the catch swallows the error and returns an empty result.
createOrderCatchSwallows(p, message) ==
  /\ outcome' = [outcome EXCEPT ![p] = Returned(NoBody)]
  /\ Finish(p)
  /\ UNCHANGED businessSent

\* Mutant: the catch sends the request again instead of throwing.
createOrderCatchRetries(p, message) ==
  /\ businessSent[p] < 3
  /\ businessSent' = [businessSent EXCEPT ![p] = businessSent[p] + 1]
  /\ UNCHANGED <<outcome, pc, ensured, bearer, overlapped, started>>

\* catch (error) { throw new Error('Failed to create order: ' + message) }
createOrderCatch(p, message) ==
  /\ outcome' = [outcome EXCEPT ![p] =
                   Threw(<<"Failed to create order: ">> \o message)]
  /\ Finish(p)
  /\ UNCHANGED businessSent

\* The provider accepts the business request.
BusinessSucceeds(p) ==
  /\ pc[p] = "awaitBusiness"
  /\ bearer[p] # Undefined
  /\ \E resp \in [status : {201}, data : OrderPayloads] :
       /\ delivered' = [delivered EXCEPT ![p] = resp]
       /\ outcome' = [outcome EXCEPT ![p] = createOrderReturn(resp)]
  /\ Finish(p)
  /\ UNCHANGED <<config, tokenData, now, ticks, calls, issued, op, args,
                 exchangeSent, businessSent, host, logged, cold, discarded,
                 staleClear>>

\* The entries a failure of the business request writes: those of
\* handleRequestError, then logger.error('Error creating order:', error).
createOrderLogs(resp) ==
  handleRequestErrorLogs(resp, {"bearer", "payload"})
    \cup {LogEntry("Error creating order:",
                   ErrorValue(handleRequestError(resp, NoToken).raw,
                              handleRequestError(resp, NoToken).message,
                              {"bearer", "payload"}))}

\* The business request fails: the client's interceptor runs
\* handleRequestError, then the catch of createOrder runs.
BusinessFails(p) ==
  /\ pc[p] = "awaitBusiness"
  /\ \E resp \in ErrorResponses :
       LET h == handleRequestError(resp, tokenData) IN
         /\ delivered' = [delivered EXCEPT ![p] = resp]
         /\ tokenData' = h.tokenData
         /\ discarded' = Discard(resp, tokenData)
         /\ staleClear' = StaleClear(resp, tokenData, bearer[p])
         /\ createOrderCatch(p, h.message)
         /\ logged' = [logged EXCEPT ![p] = @ \cup createOrderLogs(resp)]
  /\ UNCHANGED <<config, now, ticks, calls, issued, op, args, exchangeSent,
                 host, cold>>

\* ---- verifyCredentials

InvalidCredentialsMessage ==
  <<"Invalid PayPal credentials. Please check your client ID and secret.">>

\* Mutant: verifyCredentials goes through the cache, as ensureAccessToken
\* does.
verifyCredentialsThroughCache(p) ==
  /\ ensured' = [ensured EXCEPT ![p] = Undefined]
  /\ pc' = [pc EXCEPT ![p] = "awaitVerify"]
  /\ exchangeSent' = [exchangeSent EXCEPT ![p] =
                        IF HasValidToken(tokenData, now) THEN 0 ELSE 1]
  /\ host' = [host EXCEPT ![p] = BaseUrl(environment)]
  /\ started' = [started EXCEPT ![p] = LastStarted + 1]

\* verifyCredentials up to its await: `await this.getAccessToken()`, whatever
\* this.tokenData holds.
verifyCredentials(p) == getAccessToken(p, "awaitVerify")

\* The server verifies its credentials.
InvokeVerify(p) ==
  /\ Begin(p, "verify_credentials")
  /\ verifyCredentials(p)
  /\ args' = [args EXCEPT ![p] = ValidOrder]
  /\ outcome' = [outcome EXCEPT ![p] = Pending]
  /\ logged' = [logged EXCEPT ![p] = {}]
  /\ businessSent' = [businessSent EXCEPT ![p] = 0]
  /\ Overlap(p)

\* The exchange answered with a token: getAccessToken stores it, and
\* verifyCredentials returns true.
VerifySucceeds(p) ==
  /\ pc[p] = "awaitVerify"
  /\ StoreToken
  /\ outcome' = [outcome EXCEPT ![p] = Returned(VerifiedTrue)]
  /\ Finish(p)
  /\ UNCHANGED <<config, now, ticks, calls, op, args, exchangeSent,
                 businessSent, delivered, host, logged, cold>>

\* Mutant: the catch of verifyCredentials returns false.
verifyCredentialsCatchReturnsFalse(error) == Returned([verified |-> FALSE])

\* catch (error) { ...; throw new Error('Invalid PayPal credentials. ...') }
verifyCredentialsCatch(error) == Threw(InvalidCredentialsMessage)

\* The exchange failed: the catch of getAccessToken throws, and the catch of
\* verifyCredentials logs that error and throws its own.
VerifyFails(p) ==
  /\ pc[p] = "awaitVerify"
  /\ \E resp \in ErrorResponses :
       /\ ExchangeFailsWith(p, resp)
       /\ outcome' = [outcome EXCEPT ![p] =
            verifyCredentialsCatch(
              [message |-> getAccessTokenCatch(ExchangeError(resp)),
               raw |-> FALSE, authorization |-> <<>>])]
       /\ logged' = [logged EXCEPT ![p] =
            @ \cup getAccessTokenLogs(resp)
              \cup {LogEntry("Failed to verify PayPal credentials:",
                             ErrorValue(FALSE, AuthenticateFailedMessage,
                                        {}))}]

\* ---- getUserInfo

\* A caller invokes get_userinfo with an access token: getUserInfo runs up to
\* its `await axios.get(...)`.
InvokeUserInfo(p) ==
  /\ Begin(p, "get_userinfo")
  /\ pc' = [pc EXCEPT ![p] = "awaitUserInfo"]
  /\ args' = [args EXCEPT ![p] = ValidOrder]
  /\ outcome' = [outcome EXCEPT ![p] = Pending]
  /\ exchangeSent' = [exchangeSent EXCEPT ![p] = 0]
  /\ businessSent' = [businessSent EXCEPT ![p] = 1]
  /\ host' = [host EXCEPT ![p] = UserInfoUrl]
  /\ logged' = [logged EXCEPT ![p] =
       {LogEntry("User info args:", sanitizeForLogging({"bearer"}))}]
  /\ Overlap(p)
  /\ UNCHANGED <<ensured, started>>

\* return response.data
UserInfoSucceeds(p) ==
  /\ pc[p] = "awaitUserInfo"
  /\ \E resp \in [status : {200}, data : UserInfoPayloads] :
       /\ delivered' = [delivered EXCEPT ![p] = resp]
       /\ outcome' = [outcome EXCEPT ![p] = Returned(resp.data)]
  /\ Finish(p)
  /\ UNCHANGED <<config, tokenData, now, ticks, calls, issued, op, args,
                 exchangeSent, businessSent, host, logged, cold, discarded,
                 staleClear>>

\* The request fails; plain axios has no interceptor, so the catch of
\* getUserInfo receives the AxiosError, logs it and throws.
UserInfoFails(p) ==
  /\ pc[p] = "awaitUserInfo"
  /\ \E resp \in UserInfoErrors :
       /\ delivered' = [delivered EXCEPT ![p] = resp]
       /\ outcome' = [outcome EXCEPT ![p] =
            Threw(<<"Failed to get user info: ">> \o AxiosMessage(resp))]
       /\ logged' = [logged EXCEPT ![p] =
            @ \cup {LogEntry("Error getting user info:",
                             ErrorValue(TRUE, AxiosMessage(resp),
                                        {"bearer"}))}]
  /\ Finish(p)
  /\ UNCHANGED <<config, tokenData, now, ticks, calls, issued, op, args,
                 exchangeSent, businessSent, host, cold, discarded,
                 staleClear>>

\* ---- the provider and the clock

\* The states in which an invocation waits for the response to a request.
Awaiting == {"awaitExchange", "awaitVerify", "awaitBusiness", "awaitUserInfo"}

\* The provider never answers the request p waits for.  No client is given
\* a timeout (axios's default is none), so nothing ends the wait.
NeverAnswered(p) ==
  /\ pc[p] \in Awaiting
  /\ pc' = [pc EXCEPT ![p] = "hung"]
  /\ UNCHANGED <<config, tokenData, now, ticks, calls, issued, op, args,
                 exchangeSent, businessSent, ensured, bearer, delivered,
                 outcome, host, logged, cold, overlapped, discarded,
                 started, staleClear>>

\* Time passes.  Between the resolution of ensureAccessToken and the
\* continuation of getAuthenticatedClient only a microtask turn passes, so
\* the clock does not advance there.
Tick ==
  /\ ticks < MaxTicks
  /\ \A p \in Procs : pc[p] # "ensured"
  /\ \E d \in Deltas : now' = now + d
  /\ ticks' = ticks + 1
  /\ UNCHANGED <<config, tokenData, calls, issued, pc, op, args,
                 exchangeSent, businessSent, ensured, bearer, delivered,
                 outcome, host, logged, cold, overlapped, discarded,
                 started, staleClear>>

\* The steps of the invocation by p once it has begun.
Step(p) ==
  \/ ExchangeSucceeds(p)
  \/ ExchangeFails(p)
  \/ getAuthenticatedClient(p)
  \/ BusinessSucceeds(p)
  \/ BusinessFails(p)
  \/ VerifySucceeds(p)
  \/ VerifyFails(p)
  \/ UserInfoSucceeds(p)
  \/ UserInfoFails(p)

\* What the caller p and the provider answering it may do.
Call(p) ==
  \/ Invoke(p)
  \/ InvokeVerify(p)
  \/ InvokeUserInfo(p)
  \/ Step(p)
  \/ NeverAnswered(p)

Next ==
  \/ Tick
  \/ \E p \in Procs : Call(p)

\* One caller, one invocation at a time.
NextAlone ==
  \/ Tick
  \/ Call(1)

Spec == Init /\ [][Next]_vars

\* One caller of the program, under every configuration.
SpecAlone == InitAny /\ [][NextAlone]_vars

\* ------------------------------------------------------------- the claims

BufferMs == tokenExpiryBuffer * 1000

\* p starts running a handler in this step (its arguments passed validation).
Starts(p) == ~Active(p) /\ pc'[p] \in {"ensured", "awaitExchange"}

\* The error classes of the spec's taxonomy.
ErrorKinds ==
  {"ValidationError", "AuthError", "RateLimited", "TransientNetworkError",
   "ProviderError", "UnknownError"}

\* The class of an error of handleRequestError, read from the branch that
\* built its message: the 401 branch, the two "PayPal API error" branches,
\* and the pass-through that logs "Unexpected error" and rejects with the
\* error as it came.
ErrorKind(message) ==
  IF message = AuthFailedMessage THEN "AuthError"
  ELSE IF Head(message) = "PayPal API error: " THEN "ProviderError"
  ELSE "UnknownError"

\* The class of the error a tool invocation throws.
OutcomeKind(message) ==
  IF message = ValidationMessage THEN "ValidationError"
  ELSE IF message = AuthenticateFailedMessage THEN "AuthError"
  ELSE IF Head(message) \in {"Failed to create order: ",
                             "Failed to get user info: "}
    THEN ErrorKind(Tail(message))
  ELSE "none"

\* The operations that are tool handlers.
ToolOps == {"create_order", "get_userinfo"}

\* C1: single-flight exchange.  When two calls of ensureAccessToken are in
\* flight and no valid credential is cached, one exchange request is sent:
\* never are two POST /v1/oauth2/token requests in flight at once, and two
\* calls that both began on an empty cache resolve to the same token.
C1_SingleFlight ==
  \A p, q \in Procs :
    p # q =>
      /\ ~(pc[p] = "awaitExchange" /\ pc[q] = "awaitExchange")
      /\ (pc[p] = "ensured" /\ pc[q] = "ensured" /\ cold[p] /\ cold[q])
           => ensured[p] = ensured[q]

\* C2: invalidation, then renewal.  The step in which a business call gets a
\* 401 leaves tokenData absent; and a call of ensureAccessToken made while
\* the credential cleared by a 401 has not been replaced sends an exchange
\* request, whatever the cleared credential's expiry was.
C2_InvalidationThenRenew ==
  [][\A p \in Procs :
       /\ (pc[p] = "awaitBusiness" /\ pc'[p] = "done"
             /\ delivered'[p].status = 401)
            => tokenData' = NoToken
       /\ (Starts(p) /\ discarded # 0)
            => (pc'[p] = "awaitExchange" /\ exchangeSent'[p] = 1)]_vars

\* A call that began after a 401 cleared a credential whose expiry minus
\* buffer is still in the future, and is now exchanging.
C2_Witness ==
  \E p \in Procs :
    /\ pc[p] = "awaitExchange"
    /\ ~overlapped[p]
    /\ cold[p]
    /\ discarded # 0
    /\ now < discarded - BufferMs

\* C3: fast path.  A call of ensureAccessToken with a credential cached and
\* now < expiration - buffer sends no request, resolves to the cached token
\* and leaves tokenData as it was.
C3_FastPath ==
  [][\A p \in Procs :
       (Starts(p) /\ tokenData.present
          /\ now < tokenData.expiration - BufferMs)
         => /\ pc'[p] = "ensured"
            /\ ensured'[p] = tokenData.access_token
            /\ exchangeSent'[p] = 0
            /\ businessSent'[p] = 0
            /\ tokenData' = tokenData
            /\ issued' = issued
            /\ \A q \in Procs \ {p} :
                 /\ exchangeSent'[q] = exchangeSent[q]
                 /\ businessSent'[q] = businessSent[q]]_vars

\* A call resolved from the cache, without an exchange.
C3_Witness ==
  \E p \in Procs :
    /\ pc[p] = "ensured"
    /\ exchangeSent[p] = 0
    /\ tokenData.present
    /\ ensured[p] = tokenData.access_token
    /\ now < tokenData.expiration - BufferMs

\* C4: the expiry buffer boundary.  A call of ensureAccessToken with a
\* credential cached and now >= expiration - buffer sends an exchange
\* request; a credential issued with expires_in <= buffer (300 under the
\* default buffer) is never served from the cache.
C4_BufferBoundary ==
  [][\A p \in Procs :
       /\ (Starts(p) /\ tokenData.present
             /\ now >= tokenData.expiration - BufferMs)
            => (pc'[p] = "awaitExchange" /\ exchangeSent'[p] = 1)
       /\ (Starts(p) /\ pc'[p] = "ensured")
            => (tokenData.present
                  /\ tokenData.expires_in > tokenExpiryBuffer)]_vars

\* A call that found the credential issued with expires_in = 300 exactly on
\* the boundary now = expiration - buffer, and is exchanging.
C4_Witness ==
  \E p \in Procs :
    /\ pc[p] = "awaitExchange"
    /\ ~overlapped[p]
    /\ tokenData.present
    /\ tokenData.expires_in = 300
    /\ now = tokenData.expiration - BufferMs

\* C5: the safety buffer.  Whenever getAuthenticatedClient returns a client,
\* the token in its Authorization header is that of the stored credential
\* and now < expiration - buffer holds of it.
C5_SafetyBuffer ==
  [][\A p \in Procs :
       (pc[p] = "ensured" /\ pc'[p] = "awaitBusiness")
         => /\ tokenData.present
            /\ bearer'[p] = tokenData.access_token
            /\ now < tokenData.expiration - BufferMs]_vars

\* C6: the classification table.  The error of a failed business call has
\* the class the table gives: no response TransientNetworkError, 401
\* AuthError, 429 RateLimited, 400 with error_description ProviderError with
\* that field's value as its message, 500 without a body ProviderError with
\* the message "provider request failed with status 500".
C6_ClassificationTable ==
  \A p \in Procs :
    (pc[p] = "done" /\ outcome[p].status = "threw"
       /\ delivered[p] # NotDelivered)
      => LET r == delivered[p]
             m == Tail(outcome[p].message)
         IN /\ r.status = 0 => ErrorKind(m) = "TransientNetworkError"
            /\ r.status = 401 => ErrorKind(m) = "AuthError"
            /\ r.status = 429 => ErrorKind(m) = "RateLimited"
            /\ (r.status = 400 /\ r.data.error_description # "")
                 => (ErrorKind(m) = "ProviderError"
                       /\ m = <<r.data.error_description>>)
            /\ (r.status = 500 /\ r.data = NoBody)
                 => (ErrorKind(m) = "ProviderError"
                       /\ m = <<"provider request failed with status ",
                                StatusText(r.status)>>)

C8_ColdCacheEndToEnd ==
  \A p \in Procs :
    /\ (pc[p] = "awaitExchange" /\ cold[p])
         => (exchangeSent[p] = 1 /\ businessSent[p] = 0)
    /\ (pc[p] = "awaitBusiness" /\ cold[p])
         => /\ exchangeSent[p] = 1
            /\ businessSent[p] = 1
            /\ ensured[p] # Undefined
            /\ ~overlapped[p] => bearer[p] = ensured[p]
    /\ (pc[p] = "done" /\ op[p] = "create_order" /\ cold[p]
          /\ outcome[p].status = "returned")
         => /\ exchangeSent[p] = 1
            /\ businessSent[p] = 1
            /\ delivered[p].status = 201
            /\ outcome[p].data = delivered[p].data

\* The first invocation of a run, alone, returned the order.
C8_Witness ==
  \E p \in Procs :
    /\ calls = 1
    /\ pc[p] = "done"
    /\ op[p] = "create_order"
    /\ cold[p]
    /\ outcome[p].status = "returned"
    /\ outcome[p].data \in OrderPayloads

Malformed(a) ==
  \/ a.intent \notin {"CAPTURE", "AUTHORIZE"}
  \/ a.units = 0
  \/ a.currencyLen # 3
  \/ ~a.valueOk

C11_StaticEnvironment ==
  \A p \in Procs : host[p] # "" => host[p] = BaseUrl(environment)

\* C12: verifyCredentials.  A call of verifyCredentials sends one exchange
\* request, to the configured host, whatever is cached; it ends returning
\* true when the exchange gave a token and throwing the error "Invalid PayPal
\* credentials" when the exchange failed, never returning false.
C12_VerifyCredentials ==
  [][\A p \in Procs :
       /\ (~Active(p) /\ Active(p)' /\ op'[p] = "verify_credentials")
            => /\ pc'[p] = "awaitVerify"
               /\ exchangeSent'[p] = 1
               /\ host'[p] = BaseUrl(environment)
       /\ (pc[p] = "awaitVerify" /\ pc'[p] = "done")
            => /\ exchangeSent'[p] = 1
               /\ businessSent'[p] = 0
               /\ \/ /\ issued' = issued + 1
                     /\ outcome'[p] = Returned(VerifiedTrue)
                  \/ /\ issued' = issued
                     /\ outcome'[p] = Threw(InvalidCredentialsMessage)]_vars

\* A call of verifyCredentials made on a valid cached credential, with no
\* other invocation about, has sent its exchange request.
C12_Witness ==
  \E p \in Procs :
    /\ pc[p] = "awaitVerify"
    /\ ~overlapped[p]
    /\ HasValidToken(tokenData, now)
    /\ exchangeSent[p] = 1

\* C13: redaction on every log path.  Every value an invocation wrote to the
\* log went through sanitizeForLogging and carries neither the request
\* payload, nor the bearer token, nor the encoding of the client secret.
C13_RedactedLogs ==
  \A p \in Procs :
    \A e \in logged[p] : e.value.sanitized /\ e.value.carries = {}

\* C14: bounded wait.  An invocation that is running always has a next step:
\* the response it waits for, or the timeout that ends the wait.
C14_BoundedWait ==
  \A p \in Procs : Active(p) => ENABLED Step(p)

\* C15: atomic credential update.  An exchange that ends without a response
\* leaves tokenData as it was; and whenever tokenData becomes a credential,
\* all of it comes from the one token response of that step: the token just
\* issued, its expires_in, and the expiration computed from that expires_in.
C15_AtomicUpdate ==
  [][/\ \A p \in Procs :
          ExchangeFailsWith(p, NoResponse) => tokenData' = tokenData
     /\ (tokenData' # tokenData /\ tokenData'.present)
          => /\ issued' = issued + 1
             /\ \E e \in ExpiresInValues :
                  tokenData' = [present |-> TRUE, access_token |-> issued',
                                expires_in |-> e,
                                expiration |-> now + (e * 1000)]]_vars

\* An exchange got no response while a credential was stored, and the
\* credential is still there.
C15_Witness ==
  \E p \in Procs :
    /\ pc[p] = "done"
    /\ ~overlapped[p]
    /\ ~cold[p]
    /\ tokenData.present
    /\ \E e \in logged[p] :
         /\ e.site = "Failed to obtain PayPal access token:"
         /\ e.value.message = AxiosMessage(NoResponse)

\* The states of an invocation whose exchange has given its token.
Resolved == {"ensured", "awaitBusiness"}

\* C16: no clobbering by a slow exchange.  When the exchanges of two
\* invocations have both given their tokens, the stored credential holds the
\* token of the exchange that was started last.
C16_NoClobbering ==
  \A p, q \in Procs :
    (/\ pc[p] \in Resolved /\ pc[q] \in Resolved
     /\ 0 < started[p] /\ started[p] < started[q]
     /\ tokenData.present)
      => tokenData.access_token = ensured[q]

\* In this step a request of p was answered with a 401.
Rejected(p) ==
  \/ pc[p] \in {"awaitBusiness", "awaitUserInfo"}
       /\ pc'[p] = "done" /\ delivered'[p].status = 401
  \/ pc[p] \in {"awaitExchange", "awaitVerify"}
       /\ pc'[p] = "done"
       /\ \E e \in logged'[p] :
            /\ e.site = "Failed to obtain PayPal access token:"
            /\ e.value.message = AuthFailedMessage

\* C17: credential write exclusivity.  tokenData changes only when the
\* exchange of ensureAccessToken replaces it or when a 401 clears it; every
\* other step, those of verifyCredentials included, leaves it unchanged.
C17_WriteExclusivity ==
  [][tokenData' # tokenData
       => \E p \in Procs :
            \/ /\ op[p] # "verify_credentials"
               /\ pc[p] = "awaitExchange" /\ pc'[p] = "ensured"
               /\ tokenData'.present
            \/ /\ Rejected(p)
               /\ tokenData' = NoToken]_vars

\* C17, amended: tokenData changes only when an exchange of getAccessToken,
\* called by ensureAccessToken or by verifyCredentials, gave a token, which
\* replaces it, or when a 401 to a request sent through the service's
\* clients clears it; every other step leaves it unchanged.
C17_WriteExclusivityAmended ==
  [][tokenData' # tokenData
       => \E p \in Procs :
            \/ /\ pc[p] \in {"awaitExchange", "awaitVerify"}
               /\ pc'[p] \in {"ensured", "done"}
               /\ issued' = issued + 1
               /\ tokenData'.present
               /\ tokenData'.access_token = issued'
            \/ /\ pc[p] # "awaitUserInfo"
               /\ Rejected(p)
               /\ tokenData' = NoToken]_vars

\* A call of verifyCredentials has replaced the credential that was stored
\* when it began.
C17_Witness ==
  \E p \in Procs :
    /\ pc[p] = "done"
    /\ op[p] = "verify_credentials"
    /\ ~cold[p]
    /\ outcome[p] = Returned(VerifiedTrue)
    /\ tokenData.present
    /\ tokenData.access_token = issued
    /\ issued >= 2

\* What must not appear in an error message: a client secret, or the Basic
\* encoding of one.
SecretFragments ==
  Secrets \cup {Base64(clientId, secret) : secret \in Secrets}

\* The invocation by p is over, its exchange having failed.
ExchangeFailed(p) ==
  /\ pc[p] = "done"
  /\ op[p] \in {"create_order", "verify_credentials"}
  /\ exchangeSent[p] = 1
  /\ businessSent[p] = 0
  /\ outcome[p].status = "threw"

\* C18: no secret in errors.  The error of a failed ensureAccessToken or
\* verifyCredentials has a message fixed by the operation alone, so the same
\* under any client secret, and no part of it is the client secret or its
\* Basic encoding.
C18_SecretNonLeak ==
  \A p \in Procs :
    ExchangeFailed(p)
      => /\ outcome[p].message =
              IF op[p] = "verify_credentials"
                THEN InvalidCredentialsMessage
                ELSE AuthenticateFailedMessage
         /\ \A i \in 1..Len(outcome[p].message) :
              outcome[p].message[i] \notin SecretFragments

\* Under the second secret, an exchange failed with an error that holds the
\* Authorization header of the request, and the invocation threw.
C18_Witness ==
  \E p \in Procs :
    /\ clientSecret = "secret-B"
    /\ ExchangeFailed(p)
    /\ op[p] = "create_order"
    /\ \E e \in logged[p] :
         /\ e.site = "Failed to obtain PayPal access token:"
         /\ "basic" \in e.value.carries

\* C19: capability token integrity.  The Authorization header of the client
\* getAuthenticatedClient returns carries the token its own call of
\* ensureAccessToken resolved to, never undefined.
C19_TokenIntegrity ==
  \A p \in Procs :
    pc[p] = "awaitBusiness"
      => (bearer[p] # Undefined /\ bearer[p] = ensured[p])

\* C20: invalidation targets the rejected token only.  A 401 to a request
\* that carried another token than the stored credential's leaves the stored
\* credential as it is.
C20_TargetedInvalidation ==
  [][\A p \in Procs :
       (/\ pc[p] = "awaitBusiness" /\ pc'[p] = "done"
        /\ delivered'[p].status = 401
        /\ bearer[p] # Undefined
        /\ tokenData.present
        /\ tokenData.access_token # bearer[p])
         => tokenData' = tokenData]_vars

\* C20, amended: a 401 to a request sent through an authenticated client
\* clears the stored credential whatever token the request carried, also a
\* credential that a later exchange stored.
C20_AnyRejectionInvalidates ==
  [][\A p \in Procs :
       (/\ pc[p] = "awaitBusiness" /\ pc'[p] = "done"
        /\ delivered'[p].status = 401)
         => /\ tokenData' = NoToken
            /\ (tokenData.present /\ bearer[p] # Undefined
                  /\ tokenData.access_token # bearer[p])
                 => staleClear']_vars

\* A 401 to a request that carried an older token has cleared the credential
\* of a later exchange.
C20_Witness ==
  \E p \in Procs :
    /\ pc[p] = "done"
    /\ delivered[p].status = 401
    /\ staleClear
    /\ tokenData = NoToken
    /\ issued >= 2

\* C21: exchange before business call.  A handler sends its business request
\* only in the step after its ensureAccessToken has resolved to a token,
\* having sent none before; when its exchange fails it has sent no business
\* request and throws the authentication failure.
C21_ExchangeBeforeBusiness ==
  [][\A p \in Procs :
       /\ (op'[p] = "create_order" /\ businessSent'[p] > businessSent[p])
            => /\ pc[p] = "ensured"
               /\ ensured[p] # Undefined
               /\ businessSent[p] = 0
               /\ cold[p] => exchangeSent[p] = 1
       /\ (pc[p] = "awaitExchange" /\ pc'[p] = "done")
            => /\ businessSent'[p] = 0
               /\ delivered'[p] = NotDelivered
               /\ outcome'[p] = Threw(AuthenticateFailedMessage)
               /\ OutcomeKind(outcome'[p].message) = "AuthError"]_vars

\* One invocation sent its business request after its exchange gave a token;
\* the exchange of the other failed, and it is over without a business
\* request.
C21_Witness ==
  \E p, q \in Procs :
    /\ pc[p] = "awaitBusiness" /\ exchangeSent[p] = 1 /\ businessSent[p] = 1
    /\ ensured[p] # Undefined
    /\ pc[q] = "done" /\ op[q] = "create_order"
    /\ exchangeSent[q] = 1 /\ businessSent[q] = 0
    /\ outcome[q] = Threw(AuthenticateFailedMessage)

\* C22: classification precedence in handleRequestError.  A 401 yields the
\* authentication failure and clears tokenData whatever its body; any other
\* status yields the body's error_description when it has one, else its
\* message when it has one; and a failure without a response or with a
\* status other than 401 leaves tokenData as it was.
C22_ClassificationPrecedence ==
  [][\A p \in Procs :
       (pc[p] = "awaitBusiness" /\ pc'[p] = "done"
          /\ outcome'[p].status = "threw")
         => LET r == delivered'[p]
                m == Tail(outcome'[p].message)
            IN /\ r.status = 401
                    => (m = AuthFailedMessage /\ tokenData' = NoToken)
               /\ (r.status # 401 /\ r.data.error_description # "")
                    => m = <<"PayPal API error: ", r.data.error_description>>
               /\ (r.status # 401 /\ r.data.error_description = ""
                     /\ r.data.message # "")
                    => m = <<"PayPal API error: ", r.data.message>>
               /\ r.status # 401 => tokenData' = tokenData]_vars

\* A 401 whose body has both fields gave the authentication failure and
\* cleared the credential.
C22_Witness ==
  \E p \in Procs :
    /\ pc[p] = "done"
    /\ delivered[p].status = 401
    /\ delivered[p].data.error_description # ""
    /\ delivered[p].data.message # ""
    /\ Tail(outcome[p].message) = AuthFailedMessage
    /\ tokenData = NoToken
    /\ discarded # 0

====
